---- MODULE Spec2Model ----
(***************************************************************************)
(* Verification model of the corpus analysis engines of curse_nlp (v2):    *)
(*   core/frequency.py   FrequencyAnalyzer.analyze                         *)
(*   core/term_index.py  TermIndexBuilder (terms, n-grams, abbreviations)  *)
(*   core/ner.py         NERExtractor (validation, aggregation)            *)
(* Texts are sequences of one-character strings; a Python dict or Counter  *)
(* is a sequence of records in insertion order; a float score is an exact  *)
(* fraction [num, den] whose logarithm is taken from a fixed-point table.  *)
(***************************************************************************)
EXTENDS Integers, Sequences, FiniteSets, TLC

VARIABLES
    lemma_lists,    \* FrequencyAnalyzer.analyze: the argument
    freq_results,   \* FrequencyAnalyzer.results (NoResult until analyze ran)
    corpus_texts,       \* TermIndexBuilder.build_index: the argument
    domain_terms,   \* TermIndexBuilder.domain_terms, loaded by __init__
    abbr_stopwords, \* TermIndexBuilder.abbr_stopwords, loaded by __init__
    morph_nouns_adjs, \* the words pymorphy tags NOUN or ADJF
    term_results,   \* TermIndexBuilder.results (NoResult until build_index ran)
    term_df,        \* the df tables of the last build_index, by n-gram length
    morph_raises,   \* the words on which TermIndexBuilder.morph.parse raises
    term_raised,    \* the last build_index ended with an exception
    ner_corpus,     \* NERExtractor.extract_from_corpus: the argument
    extractor,      \* the fields NERExtractor.__init__ loads
    morph_analyzer, \* what NERExtractor.morph answers
    ner_results,    \* NERExtractor.results (NoResult until extract_from_corpus ran)
    tagger_raises,  \* the texts on which the NER tagger raises
    ner_raised,     \* the last extract_from_corpus ended with an exception
    person_name,    \* NERExtractor._validate_person: the argument
    person_valid,   \* <<what _validate_person returned>>, <<>> before the call
    span_text,      \* the argument of _validate_org and _normalize_location
    org_valid,      \* <<what _validate_org returned>>, <<>> before the call
    loc_normalized, \* <<what _normalize_location returned>>, <<>> before the call
    cache,          \* CacheManager: the content of cache_dir, by entry name
    corpus_dir,     \* what PDFParser.extract_all finds in CORPUS_DIR
    last_command,   \* the CLI command that ran last
    cache_writes    \* the entries that command passed to CacheManager.save

freqVars == <<lemma_lists, freq_results>>
termVars == <<corpus_texts, domain_terms, abbr_stopwords, morph_nouns_adjs, term_results, term_df,
              morph_raises, term_raised>>
nerVars == <<ner_corpus, extractor, morph_analyzer, ner_results, tagger_raises, ner_raised>>
personVars == <<person_name, person_valid>>
nameVars == <<span_text, org_valid, loc_normalized>>
cliVars == <<cache, corpus_dir, last_command, cache_writes>>
vars == <<freqVars, termVars, nerVars, personVars, nameVars, cliVars>>

NoResult == [none |-> TRUE]

(***************************************************************************)
(* Generic helpers                                                         *)
(***************************************************************************)
Range(s) == {s[i] : i \in 1..Len(s)}

RECURSIVE SeqsUpTo(_, _)
\* all sequences over S of length 0..n
SeqsUpTo(S, n) ==
    IF n = 0 THEN {<<>>}
    ELSE LET shorter == SeqsUpTo(S, n - 1)
         IN  shorter \cup {Append(s, x) : s \in {t \in shorter : Len(t) = n - 1}, x \in S}

RECURSIVE SumSeq(_)
SumSeq(s) == IF s = <<>> THEN 0 ELSE s[1] + SumSeq(Tail(s))

(***************************************************************************)
(* core/frequency.py                                                       *)
(***************************************************************************)
\* config.CORE_LEXICON_THRESHOLD = 0.5, kept as the exact fraction 1/2
CORE_LEXICON_THRESHOLD_NUM == 1
CORE_LEXICON_THRESHOLD_DEN == 2

RECURSIVE all_lemmas(_)
\* [lemma for lemmas in lemma_lists for lemma in lemmas]
all_lemmas(ll) == IF ll = <<>> THEN <<>> ELSE ll[1] \o all_lemmas(Tail(ll))

\* Counter.update for one element: increment in place, or append a new key
CounterAdd(counter, x) ==
    IF \E i \in 1..Len(counter) : counter[i].key = x
    THEN [i \in 1..Len(counter) |->
            IF counter[i].key = x
            THEN [key |-> x, count |-> counter[i].count + 1]
            ELSE counter[i]]
    ELSE Append(counter, [key |-> x, count |-> 1])

RECURSIVE CounterFrom(_, _)
CounterFrom(counter, s) ==
    IF s = <<>> THEN counter ELSE CounterFrom(CounterAdd(counter, s[1]), Tail(s))

\* collections.Counter(seq): keys in first-encountered order
Counter(s) == CounterFrom(<<>>, s)

\* one step of a stable descending sort on .count: x goes behind every
\* element whose count is at least its own
InsertByCountReversed(sorted, x) ==
    LET before == {i \in 1..Len(sorted) : sorted[i].count > x.count}
        k == Cardinality(before)
    IN  SubSeq(sorted, 1, k) \o <<x>> \o SubSeq(sorted, k + 1, Len(sorted))

InsertByCount(sorted, x) ==
    LET before == {i \in 1..Len(sorted) : sorted[i].count >= x.count}
        k == Cardinality(before)
    IN  SubSeq(sorted, 1, k) \o <<x>> \o SubSeq(sorted, k + 1, Len(sorted))

RECURSIVE SortByCountFrom(_, _)
SortByCountFrom(sorted, rest) ==
    IF rest = <<>> THEN sorted
    ELSE SortByCountFrom(InsertByCount(sorted, rest[1]), Tail(rest))

\* Counter.most_common(): sorted(items, key=count, reverse=True), stable
most_common(counter) == SortByCountFrom(<<>>, counter)

\* cumulative += freq, as a mutant: the running total is not carried
cumulative_not_carried(sorted, rank) == sorted[rank].count

\* the value of `cumulative` when the entry of `rank` is appended
cumulative(sorted, rank) == SumSeq([i \in 1..rank |-> sorted[i].count])

\* the freq_dict list built by the loop over enumerate(sorted_lemmas, 1)
freq_dict_of(sorted, M) ==
    [rank \in 1..Len(sorted) |->
        [lemma           |-> sorted[rank].key,
         frequency       |-> sorted[rank].count,
         rank            |-> rank,
         relative_freq   |-> [num |-> sorted[rank].count * 100, den |-> M],
         cumulative_freq |-> cumulative(sorted, rank)]]

\* item['cumulative_freq'] >= M * CORE_LEXICON_THRESHOLD, as a mutant: >
reaches_core_strict(item, M) ==
    item.cumulative_freq * CORE_LEXICON_THRESHOLD_DEN > M * CORE_LEXICON_THRESHOLD_NUM

\* item['cumulative_freq'] >= M * CORE_LEXICON_THRESHOLD
reaches_core(item, M) ==
    item.cumulative_freq * CORE_LEXICON_THRESHOLD_DEN >= M * CORE_LEXICON_THRESHOLD_NUM

\* core_size = 0; for item in freq_dict: if ...: core_size = item['rank']; break
core_size_of(freq_dict, M) ==
    LET hits == {i \in 1..Len(freq_dict) : reaches_core(freq_dict[i], M)}
    IN  IF hits = {} THEN 0
        ELSE freq_dict[CHOOSE i \in hits : \A j \in hits : i <= j].rank

\* analyze as a mutant: K_R and K_I are divided out without the guards
analyze_unguarded(ll) ==
    LET flat    == all_lemmas(ll)
        counter == Counter(flat)
        sorted  == most_common(counter)
        M       == Len(flat)
        N       == Len(counter)
        fd      == freq_dict_of(sorted, M)
    IN  [M   |-> M,
         N   |-> N,
         K_R |-> [num |-> N * 100, den |-> M],
         K_I |-> [num |-> M, den |-> N],
         core_lexicon_size |-> core_size_of(fd, M),
         freq_dict |-> fd]

\* FrequencyAnalyzer.analyze: the returned dict
analyze(ll) ==
    LET flat    == all_lemmas(ll)
        counter == Counter(flat)
        sorted  == most_common(counter)
        M       == Len(flat)
        N       == Len(counter)
        fd      == freq_dict_of(sorted, M)
    IN  [M   |-> M,
         N   |-> N,
         K_R |-> IF M > 0 THEN [num |-> N * 100, den |-> M] ELSE [num |-> 0, den |-> 1],
         K_I |-> IF N > 0 THEN [num |-> M, den |-> N] ELSE [num |-> 0, den |-> 1],
         core_lexicon_size |-> core_size_of(fd, M),
         freq_dict |-> fd]

(***************************************************************************)
(* Characters and the string operations the engines use.  A string is a    *)
(* sequence of characters; "zh" and "ZH" stand for one Cyrillic letter in  *)
(* lower and upper case.                                                   *)
(***************************************************************************)
LatinLowerSeq == <<"a", "b", "c", "d", "e", "f", "g", "h", "i", "j", "k", "l", "m",
                   "n", "o", "p", "q", "r", "s", "t", "u", "v", "w", "x", "y", "z">>
LatinUpperSeq == <<"A", "B", "C", "D", "E", "F", "G", "H", "I", "J", "K", "L", "M",
                   "N", "O", "P", "Q", "R", "S", "T", "U", "V", "W", "X", "Y", "Z">>
LowerSeq == LatinLowerSeq \o <<"zh">>
UpperSeq == LatinUpperSeq \o <<"ZH">>
LatinUpper == Range(LatinUpperSeq)
LowerLetters == Range(LowerSeq)      \* [а-яёa-z]
UpperLetters == Range(UpperSeq)      \* [A-ZА-ЯЁ]
Digits == {"0", "1", "2", "3", "4", "5", "6", "7", "8", "9"}
Whitespace == {" ", "\n"}            \* \s, and what str.split() splits on
WordChars == LowerLetters \cup UpperLetters \cup Digits \cup {"_"}     \* \w
AllChars == WordChars \cup Whitespace \cup {"(", ")", ".", ",", ";"}

NonWhitespace == AllChars \ Whitespace
NotOpenParen == AllChars \ {"("}      \* [^(]
NotCloseParen == AllChars \ {")"}     \* [^)]

\* str.lower(), character by character
LowerMap ==
    [c \in AllChars |->
        IF c \in UpperLetters
        THEN LowerSeq[CHOOSE i \in 1..Len(UpperSeq) : UpperSeq[i] = c]
        ELSE c]

\* str.lower()
lower(t) == [i \in 1..Len(t) |-> LowerMap[t[i]]]

RECURSIVE RunsFrom(_, _, _, _, _)
RunsFrom(t, S, i, cur, acc) ==
    IF i > Len(t) THEN (IF cur = <<>> THEN acc ELSE Append(acc, cur))
    ELSE IF t[i] \in S THEN RunsFrom(t, S, i + 1, Append(cur, t[i]), acc)
    ELSE RunsFrom(t, S, i + 1, <<>>, IF cur = <<>> THEN acc ELSE Append(acc, cur))

\* the maximal runs of characters of S in t, left to right
Runs(t, S) == RunsFrom(t, S, 1, <<>>, <<>>)

\* str.split(): the runs of non-whitespace
split(t) == Runs(t, NonWhitespace)

RECURSIVE join(_, _)
\* sep.join(parts)
join(sep, parts) ==
    IF parts = <<>> THEN <<>>
    ELSE IF Len(parts) = 1 THEN parts[1]
    ELSE parts[1] \o sep \o join(sep, Tail(parts))

\* ' '.join(s.split())
collapse_spaces(t) == join(<<" ">>, split(t))

\* needle in haystack
contains(haystack, needle) ==
    \E i \in 0..(Len(haystack) - Len(needle)) :
        SubSeq(haystack, i + 1, i + Len(needle)) = needle

\* re.findall(r'\b[а-яёa-z]{min,}\b', t): between two \b a match is a whole
\* run of \w characters, so it is a run made of lower-case letters only
find_lower_words(t, min) ==
    SelectSeq(Runs(t, WordChars),
              LAMBDA r : Len(r) >= min /\ \A i \in 1..Len(r) : r[i] \in LowerLetters)

(***************************************************************************)
(* Scores.  tf * idf is the exact fraction num / (den * Micro) where the   *)
(* natural logarithm comes from a table in millionths.                     *)
(***************************************************************************)
Micro == 1000000
LnMicroTable == <<0, 693147, 1098612, 1386294, 1609438, 1791759>>

\* math.log(num_docs / df) + 1, in millionths
idf_micro(num_docs, dfw) ==
    IF dfw > 0 THEN LnMicroTable[num_docs] - LnMicroTable[dfw] + Micro ELSE 0

ScoreGT(a, b) == a.num * b.den > b.num * a.den
ScoreGE(a, b) == a.num * b.den >= b.num * a.den
ScoreEQ(a, b) == a.num * b.den = b.num * a.den
ScorePositive(a) == a.num > 0

(***************************************************************************)
(* core/term_index.py                                                      *)
(***************************************************************************)
MIN_TERM_FREQUENCY == 3
DOMAIN_BOOST == 2
TOP_WORDS_LIMIT == 1000

\* df[word] += 1 for word in set(words), as a mutant: for word in words
df_add_doc_per_occurrence(df, items) ==
    [w \in (DOMAIN df) \cup Range(items) |->
        (IF w \in DOMAIN df THEN df[w] ELSE 0)
        + Cardinality({i \in 1..Len(items) : items[i] = w})]

\* unique = set(items); for x in unique: df[x] += 1
df_add_doc(df, items) ==
    [w \in (DOMAIN df) \cup Range(items) |->
        (IF w \in DOMAIN df THEN df[w] ELSE 0)
        + (IF w \in Range(items) THEN 1 ELSE 0)]

RECURSIVE df_from(_, _)
df_from(df, docs) ==
    IF docs = <<>> THEN df ELSE df_from(df_add_doc(df, docs[1]), Tail(docs))

\* the defaultdict df after the document-frequency loop
document_frequency(docs) == df_from(<<>>, docs)

\* tf = freq / total; idf = log(num_docs / df) + 1; tfidf = tf * idf,
\* times DOMAIN_BOOST for a domain term
tfidf_of(freq, total, num_docs, dfw, in_domain) ==
    [num |-> (IF total > 0 THEN freq ELSE 0) * idf_micro(num_docs, dfw)
                * (IF in_domain THEN DOMAIN_BOOST ELSE 1),
     den |-> IF total > 0 THEN total ELSE 1]

ScoreIndex(scores, key) == CHOOSE i \in 1..Len(scores) : scores[i].key = key
HasScore(scores, key) == \E i \in 1..Len(scores) : scores[i].key = key

\* the score update as a mutant: the score of the last document is kept
update_score_last(scores, key, tfidf) ==
    IF ~HasScore(scores, key) THEN Append(scores, [key |-> key, score |-> tfidf])
    ELSE [scores EXCEPT ![ScoreIndex(scores, key)].score = tfidf]

\* the score update as a mutant: scores of the documents are added up
update_score_sum(scores, key, tfidf) ==
    IF ~HasScore(scores, key) THEN Append(scores, [key |-> key, score |-> tfidf])
    ELSE [scores EXCEPT ![ScoreIndex(scores, key)].score =
            [num |-> @.num * tfidf.den + tfidf.num * @.den, den |-> @.den * tfidf.den]]

\* if key not in scores or tfidf > scores[key]: scores[key] = tfidf
update_score(scores, key, tfidf) ==
    IF ~HasScore(scores, key) THEN Append(scores, [key |-> key, score |-> tfidf])
    ELSE IF ScoreGT(tfidf, scores[ScoreIndex(scores, key)].score)
    THEN [scores EXCEPT ![ScoreIndex(scores, key)].score = tfidf]
    ELSE scores

InsertByScore(sorted, x) ==
    LET k == Cardinality({i \in 1..Len(sorted) : ScoreGE(sorted[i].score, x.score)})
    IN  SubSeq(sorted, 1, k) \o <<x>> \o SubSeq(sorted, k + 1, Len(sorted))

RECURSIVE SortByScoreFrom(_, _)
SortByScoreFrom(sorted, rest) ==
    IF rest = <<>> THEN sorted
    ELSE SortByScoreFrom(InsertByScore(sorted, rest[1]), Tail(rest))

\* sorted(scores.items(), key=score, reverse=True), stable
sort_by_score(scores) == SortByScoreFrom(<<>>, scores)

\* the result list: one dict per entry with a positive score
format_terms(sorted, domain) ==
    LET kept == SelectSeq(sorted, LAMBDA e : ScorePositive(e.score))
    IN  [i \in 1..Len(kept) |->
            [term        |-> kept[i].key,
             tfidf_score |-> kept[i].score,
             in_domain   |-> kept[i].key \in domain]]

\* is_valid_term: the morphological analyzer tags the word NOUN or ADJF
is_valid_term(word, nouns_adjs) == word \in nouns_adjs

RECURSIVE score_words(_, _, _, _, _, _, _)
\* for word, freq in word_freq.items(): ... (extract_terms, lines 58-71)
score_words(scores, word_freq, total, num_docs, df, domain, nouns_adjs) ==
    IF word_freq = <<>> THEN scores
    ELSE LET word == word_freq[1].key
             freq == word_freq[1].count
             next == IF ~is_valid_term(word, nouns_adjs) THEN scores
                     ELSE update_score(scores, word,
                              tfidf_of(freq, total, num_docs, df[word], word \in domain))
         IN  score_words(next, Tail(word_freq), total, num_docs, df, domain, nouns_adjs)

RECURSIVE term_scores_from(_, _, _, _, _, _)
\* for words in doc_words: word_freq = Counter(words); ...
term_scores_from(scores, docs, num_docs, df, domain, nouns_adjs) ==
    IF docs = <<>> THEN scores
    ELSE term_scores_from(
            score_words(scores, Counter(docs[1]), Len(docs[1]), num_docs, df,
                        domain, nouns_adjs),
            Tail(docs), num_docs, df, domain, nouns_adjs)

\* doc_words of extract_terms
term_doc_words(texts) ==
    [d \in 1..Len(texts) |-> find_lower_words(lower(texts[d]), 3)]

\* TermIndexBuilder.extract_terms
extract_terms(texts, domain, nouns_adjs) ==
    LET doc_words == term_doc_words(texts)
        df        == document_frequency(doc_words)
        scores    == term_scores_from(<<>>, doc_words, Len(texts), df, domain, nouns_adjs)
    IN  format_terms(sort_by_score(scores), domain)

\* [' '.join(words[i:i+n]) for i in range(len(words)-n+1)]
ngrams_of(words, n) ==
    [i \in 1..(IF Len(words) - n + 1 > 0 THEN Len(words) - n + 1 ELSE 0) |->
        join(<<" ">>, SubSeq(words, i, i + n - 1))]

\* doc_ngrams of extract_ngrams
doc_ngrams_of(texts, n) ==
    [d \in 1..Len(texts) |-> ngrams_of(find_lower_words(lower(texts[d]), 1), n)]

RECURSIVE score_ngrams_ungated(_, _, _, _, _, _)
\* the loop as a mutant: without the MIN_TERM_FREQUENCY gate
score_ngrams_ungated(scores, ngram_freq, total, num_docs, df, domain) ==
    IF ngram_freq = <<>> THEN scores
    ELSE LET ngram == ngram_freq[1].key
             freq  == ngram_freq[1].count
             next  == update_score(scores, ngram,
                          tfidf_of(freq, total, num_docs, df[ngram], ngram \in domain))
         IN  score_ngrams_ungated(next, Tail(ngram_freq), total, num_docs, df, domain)

RECURSIVE score_ngrams(_, _, _, _, _, _)
\* for ngram, freq in ngram_freq.items(): ... (extract_ngrams, lines 110-123)
score_ngrams(scores, ngram_freq, total, num_docs, df, domain) ==
    IF ngram_freq = <<>> THEN scores
    ELSE LET ngram == ngram_freq[1].key
             freq  == ngram_freq[1].count
             next  == IF freq < MIN_TERM_FREQUENCY THEN scores
                      ELSE update_score(scores, ngram,
                               tfidf_of(freq, total, num_docs, df[ngram], ngram \in domain))
         IN  score_ngrams(next, Tail(ngram_freq), total, num_docs, df, domain)

RECURSIVE ngram_scores_from(_, _, _, _, _)
ngram_scores_from(scores, docs, num_docs, df, domain) ==
    IF docs = <<>> THEN scores
    ELSE ngram_scores_from(
            score_ngrams(scores, Counter(docs[1]), Len(docs[1]), num_docs, df, domain),
            Tail(docs), num_docs, df, domain)

\* TermIndexBuilder.extract_ngrams
extract_ngrams(texts, n, domain) ==
    LET doc_ngrams == doc_ngrams_of(texts, n)
        df         == document_frequency(doc_ngrams)
        scores     == ngram_scores_from(<<>>, doc_ngrams, Len(texts), df, domain)
    IN  format_terms(sort_by_score(scores), domain)

RECURSIVE RunLen(_, _, _)
\* how many characters of S follow each other in t from position p on
RunLen(t, p, S) ==
    IF p > Len(t) \/ p < 1 THEN 0
    ELSE IF t[p] \in S THEN 1 + RunLen(t, p + 1, S) ELSE 0

\* ABBR_PATTERN = \b([A-ZА-ЯЁ]{2,})\s*\(([^)]+)\) tried at position p: the
\* whole upper-case run, white space, "(", everything up to the first ")"
abbr_match_at(t, p) ==
    LET u == RunLen(t, p, UpperLetters)
        q == p + u + RunLen(t, p + u, Whitespace)
        c == RunLen(t, q + 1, NotCloseParen)
    IN  [ok    |-> /\ (p = 1 \/ t[p - 1] \notin WordChars)
                   /\ u >= 2
                   /\ q <= Len(t) /\ t[q] = "("
                   /\ c >= 1
                   /\ q + 1 + c <= Len(t),
         abbr  |-> SubSeq(t, p, p + u - 1),
         group |-> SubSeq(t, q + 1, q + c),
         next  |-> q + c + 2]

RECURSIVE abbr_finditer(_, _, _)
\* ABBR_PATTERN.finditer(text): leftmost matches that do not overlap
abbr_finditer(t, p, acc) ==
    IF p > Len(t) THEN acc
    ELSE LET m == abbr_match_at(t, p)
         IN  IF m.ok
             THEN abbr_finditer(t, m.next, Append(acc, [abbr |-> m.abbr, group |-> m.group]))
             ELSE abbr_finditer(t, p + 1, acc)

RECURSIVE reverse_finditer(_, _, _)
\* REVERSE_PATTERN = ([^(]+)\s*\(([A-ZА-ЯЁ]{2,})\) .finditer(text): group 1
\* runs from the scan position to the next "(", which must open an
\* upper-case run closed by ")"; otherwise the scan resumes behind that "("
reverse_finditer(t, p, acc) ==
    IF p > Len(t) THEN acc
    ELSE IF t[p] = "(" THEN reverse_finditer(t, p + 1, acc)
    ELSE LET q == p + RunLen(t, p, NotOpenParen)
             u == RunLen(t, q + 1, UpperLetters)
         IN  IF q > Len(t) THEN acc
             ELSE IF u >= 2 /\ q + 1 + u <= Len(t) /\ t[q + 1 + u] = ")"
             THEN reverse_finditer(t, q + u + 2,
                      Append(acc, [abbr  |-> SubSeq(t, q + 1, q + u),
                                   group |-> SubSeq(t, p, q - 1)]))
             ELSE reverse_finditer(t, q + 1, acc)

\* the matches of one text: pattern 1 first, then pattern 2
abbr_matches(t) == abbr_finditer(t, 1, <<>>) \o reverse_finditer(t, 1, <<>>)

\* the expansion as a mutant: the matched text is stored as it stands
clean_expansion_verbatim(group) == group

\* ' '.join(match.group(..).split()), also behind .strip()
clean_expansion(group) == collapse_spaces(group)

\* abbr_expansions[abbr].add(expansion)
add_expansion(dict, abbr, expansion) ==
    IF \E i \in 1..Len(dict) : dict[i].key = abbr
    THEN [i \in 1..Len(dict) |->
            IF dict[i].key = abbr
            THEN [key |-> abbr, exps |-> dict[i].exps \cup {expansion}]
            ELSE dict[i]]
    ELSE Append(dict, [key |-> abbr, exps |-> {expansion}])

RECURSIVE add_matches(_, _)
add_matches(dict, matches) ==
    IF matches = <<>> THEN dict
    ELSE add_matches(add_expansion(dict, matches[1].abbr, clean_expansion(matches[1].group)),
                     Tail(matches))

RECURSIVE abbr_expansions_from(_, _)
\* the defaultdict(set) abbr_expansions after the loop over the texts
abbr_expansions_from(dict, texts) ==
    IF texts = <<>> THEN dict
    ELSE abbr_expansions_from(add_matches(dict, abbr_matches(texts[1])), Tail(texts))

\* var_pattern = ^[A-Z][0-9]$ ($ also matches before a final newline)
var_pattern_match(abbr) ==
    /\ Len(abbr) \in {2, 3}
    /\ abbr[1] \in LatinUpper
    /\ abbr[2] \in Digits
    /\ Len(abbr) = 3 => abbr[3] = "\n"

\* the two filters as a mutant: the stopword test is left out
abbr_dropped_no_stopwords(abbr, stopwords) == var_pattern_match(abbr)

\* if abbr in self.abbr_stopwords: continue; if var_pattern.match(abbr): continue
abbr_dropped(abbr, stopwords) == abbr \in stopwords \/ var_pattern_match(abbr)

RECURSIVE Orderings(_)
\* the orders in which iterating a Python set can yield its elements
Orderings(S) ==
    IF S = {} THEN {<<>>}
    ELSE UNION {{<<x>> \o r : r \in Orderings(S \ {x})} : x \in S}

\* one result dict; order is the iteration order of the expansion set
abbr_record(entry, order) ==
    [abbreviation |-> entry.key,
     expansion    |-> IF Cardinality(entry.exps) = 1 THEN order[1]
                      ELSE join(<<";", " ">>, order),
     frequency    |-> Cardinality(entry.exps)]

RECURSIVE abbr_formatted(_, _)
\* the list `results` before sorting, for every iteration order of the sets
abbr_formatted(dict, stopwords) ==
    IF dict = <<>> THEN {<<>>}
    ELSE LET rest == abbr_formatted(Tail(dict), stopwords)
         IN  IF abbr_dropped(dict[1].key, stopwords) THEN rest
             ELSE {<<abbr_record(dict[1], o)>> \o r :
                       o \in Orderings(dict[1].exps), r \in rest}

InsertByFrequency(sorted, x) ==
    LET k == Cardinality({i \in 1..Len(sorted) : sorted[i].frequency >= x.frequency})
    IN  SubSeq(sorted, 1, k) \o <<x>> \o SubSeq(sorted, k + 1, Len(sorted))

RECURSIVE SortByFrequencyFrom(_, _)
SortByFrequencyFrom(sorted, rest) ==
    IF rest = <<>> THEN sorted
    ELSE SortByFrequencyFrom(InsertByFrequency(sorted, rest[1]), Tail(rest))

\* TermIndexBuilder.extract_abbreviations: the lists it can return
extract_abbreviations(texts, stopwords) ==
    {SortByFrequencyFrom(<<>>, r) :
        r \in abbr_formatted(abbr_expansions_from(<<>>, texts), stopwords)}

InsertByTfidf(sorted, x) ==
    LET k == Cardinality({i \in 1..Len(sorted) :
                             ScoreGE(sorted[i].tfidf_score, x.tfidf_score)})
    IN  SubSeq(sorted, 1, k) \o <<x>> \o SubSeq(sorted, k + 1, Len(sorted))

RECURSIVE SortByTfidfFrom(_, _)
SortByTfidfFrom(sorted, rest) ==
    IF rest = <<>> THEN sorted
    ELSE SortByTfidfFrom(InsertByTfidf(sorted, rest[1]), Tail(rest))

\* list.sort(key=lambda x: x['tfidf_score'], reverse=True)
sort_by_tfidf(terms) == SortByTfidfFrom(<<>>, terms)

\* the merge as a mutant: one sort of all terms by score
diversified_one_sort(all_terms) == sort_by_tfidf(all_terms)

\* domain_terms + other_terms, each sorted by score (build_index, lines 198-206)
diversified(all_terms) ==
    sort_by_tfidf(SelectSeq(all_terms, LAMBDA t : t.in_domain))
        \o sort_by_tfidf(SelectSeq(all_terms, LAMBDA t : ~t.in_domain))

\* TermIndexBuilder.build_index: the dicts it can return, one for every list
\* extract_abbreviations can return
build_index(texts, domain, tagged, stopwords) ==
    LET terms     == extract_terms(texts, domain, tagged)
        bigrams   == extract_ngrams(texts, 2, domain)
        trigrams  == extract_ngrams(texts, 3, domain)
        all_terms == terms \o bigrams \o trigrams
        merged    == diversified(all_terms)
        top       == SubSeq(merged, 1, IF Len(merged) < TOP_WORDS_LIMIT
                                       THEN Len(merged) ELSE TOP_WORDS_LIMIT)
        in_domain == Len(SelectSeq(all_terms, LAMBDA t : t.in_domain))
    IN  {[terms         |-> terms,
          bigrams       |-> bigrams,
          trigrams      |-> trigrams,
          abbreviations |-> abbreviations,
          all_terms     |-> top,
          total         |-> Len(terms) + Len(bigrams) + Len(trigrams) + Len(abbreviations),
          domain_count  |-> in_domain]
         : abbreviations \in extract_abbreviations(texts, stopwords)}

\* is_valid_term calls morph.parse on every word of every document; neither
\* extract_terms nor build_index catches its exception
build_index_raises(texts, raises) ==
    LET doc_words == term_doc_words(texts)
    IN  \E i \in 1..Len(doc_words) : \E k \in 1..Len(doc_words[i]) : doc_words[i][k] \in raises

(***************************************************************************)
(* core/ner.py.  The categories 'Персоналии', 'Организации', 'Топонимы',   *)
(* 'Программные продукты' are written Persons, Organizations, Toponyms,    *)
(* Products.  A document is [text, language, spans]; spans is what the     *)
(* tagger of the document's language reports, as [label, text].            *)
(***************************************************************************)
MIN_ENTITY_FREQUENCY == 2
MIN_PERSON_FREQUENCY == 1

Persons == "Persons"
Organizations == "Organizations"
Toponyms == "Toponyms"
Products == "Products"

\* the string literals of core/ner.py
PARALLEL == <<"p", "a", "r", "a", "l", "l", "e", "l", " ", "d", "i", "s", "t", "r", "i", "b">>
ETAL == <<"e", "t", " ", "a", "l">>
PROC == <<"p", "r", "o", "c">>
IEEE == <<"i", "e", "e", "e">>
\* "universitet" and "institut" stand for the two Russian markers
ORG_UNIVERSITET == <<"u", "n", "i", "v", "e", "r", "s", "i", "t", "e", "t">>
ORG_INSTITUT == <<"i", "n", "s", "t", "i", "t", "u", "t">>
ORG_UNIVERSITY == <<"u", "n", "i", "v", "e", "r", "s", "i", "t", "y">>
ORG_COMPANY == <<"c", "o", "m", "p", "a", "n", "y">>
ORG_INSTITUTE == <<"i", "n", "s", "t", "i", "t", "u", "t", "e">>
ORG_CORPORATION == <<"c", "o", "r", "p", "o", "r", "a", "t", "i", "o", "n">>

\* str.upper(), character by character
UpperMap ==
    [c \in AllChars |->
        IF c \in LowerLetters
        THEN UpperSeq[CHOOSE i \in 1..Len(LowerSeq) : LowerSeq[i] = c]
        ELSE c]

\* str.capitalize()
capitalize(t) == [i \in 1..Len(t) |-> IF i = 1 THEN UpperMap[t[i]] ELSE LowerMap[t[i]]]

\* NERExtractor._normalize_name
normalize_name(name, ex) ==
    LET n == collapse_spaces(name)
    IN  IF n \in DOMAIN ex.location_abbr_map THEN ex.location_abbr_map[n] ELSE n

\* morph.parse(word)[0]: the analyzer knows the case of the words of
\* morph.cases, and their nominative form when it can inflect them
tag_has_nomn(word, morph) == word \in DOMAIN morph.cases /\ morph.cases[word].nomn
inflect_nomn(word, morph) ==
    IF word \in DOMAIN morph.cases THEN morph.cases[word].inflected ELSE <<>>

\* NERExtractor._normalize_location (<<>> stands for inflect() returning None)
normalize_location(name, ex, morph) ==
    LET words == split(name)
        first == IF ~tag_has_nomn(words[1], morph) /\ inflect_nomn(words[1], morph) # <<>>
                 THEN capitalize(inflect_nomn(words[1], morph))
                 ELSE words[1]
    IN  IF Len(words) > 1
        THEN normalize_name(join(<<" ">>, <<first>> \o Tail(words)), ex)
        ELSE normalize_name(name, ex)

RECURSIVE match_runs(_, _, _)
\* re.match of a pattern that is a sequence of character classes, each taken
\* once ([..]), at least once ([..]+, \s+) or any number of times (\s*); a
\* class is never followed by one it shares a character with, so each
\* quantifier takes the whole run
match_runs(t, p, pattern) ==
    IF pattern = <<>> THEN TRUE
    ELSE LET e == pattern[1]
             n == IF e.many THEN RunLen(t, p, e.class)
                  ELSE IF p <= Len(t) /\ t[p] \in e.class THEN 1 ELSE 0
         IN  n >= e.min /\ match_runs(t, p + n, Tail(pattern))

One(class) == [class |-> class, min |-> 1, many |-> FALSE]
Plus(class) == [class |-> class, min |-> 1, many |-> TRUE]
Star(class) == [class |-> class, min |-> 0, many |-> TRUE]

\* the three name patterns of _validate_person
person_patterns ==
    << <<One(UpperLetters), Plus(LowerLetters), Plus(Whitespace),
         One(UpperLetters), One({"."}), Star(Whitespace), One(UpperLetters), One({"."})>>,
       <<One(UpperLetters), One({"."}), Star(Whitespace), One(UpperLetters), One({"."}),
         Plus(Whitespace), One(UpperLetters), Plus(LowerLetters)>>,
       <<One(UpperLetters), Plus(LowerLetters), Plus(Whitespace),
         One(UpperLetters), Plus(LowerLetters)>> >>

matches_name_pattern(name) ==
    \E k \in 1..Len(person_patterns) : match_runs(name, 1, person_patterns[k])

exclude_terms == <<PARALLEL, ETAL, PROC, IEEE>>

has_exclude_term(name) ==
    \E k \in 1..Len(exclude_terms) : contains(lower(name), exclude_terms[k])

\* 'Name' in tag or 'Surn' in tag or 'Patr' in tag, for the first word
first_word_is_name(name, morph) ==
    LET words == split(name)
    IN  Len(words) >= 1 /\ words[1] \in morph.names

\* _validate_person as a mutant: the exclusion list is consulted first
validate_person_exclude_first(name, morph) ==
    IF Len(name) < 2 THEN FALSE
    ELSE IF has_exclude_term(name) THEN FALSE
    ELSE IF matches_name_pattern(name) THEN TRUE
    ELSE first_word_is_name(name, morph)

\* NERExtractor._validate_person
validate_person(name, morph) ==
    IF Len(name) < 2 THEN FALSE
    ELSE IF matches_name_pattern(name) THEN TRUE
    ELSE IF has_exclude_term(name) THEN FALSE
    ELSE first_word_is_name(name, morph)

org_markers == <<ORG_UNIVERSITET, ORG_INSTITUT, ORG_UNIVERSITY, ORG_COMPANY,
                 ORG_INSTITUTE, ORG_CORPORATION>>

\* NERExtractor._validate_org
validate_org(name, ex) ==
    IF Len(name) < 3 THEN FALSE
    ELSE IF \E m \in ex.journal_markers : contains(lower(name), m) THEN FALSE
    ELSE \E k \in 1..Len(org_markers) : contains(lower(name), org_markers[k])

\* NERExtractor._validate_location
validate_location(name, ex) ==
    IF Len(name) < 3 THEN FALSE
    ELSE ~\E m \in ex.address_markers : contains(lower(name), m)

\* entities[category].append(name) on a defaultdict(list)
append_entity(entities, category, name) ==
    IF \E i \in 1..Len(entities) : entities[i].key = category
    THEN [i \in 1..Len(entities) |->
            IF entities[i].key = category
            THEN [key |-> category, names |-> Append(entities[i].names, name)]
            ELSE entities[i]]
    ELSE Append(entities, [key |-> category, names |-> <<name>>])

\* the body of the loop over doc.spans in _extract_entities_ru
ru_span(entities, span, ex, morph) ==
    IF span.label = "PER"
    THEN LET name == normalize_name(span.text, ex)
         IN  IF validate_person(name, morph)
             THEN append_entity(entities, Persons, name) ELSE entities
    ELSE IF span.label = "ORG"
    THEN LET name == normalize_name(span.text, ex)
         IN  IF validate_org(name, ex)
             THEN append_entity(entities, Organizations, name) ELSE entities
    ELSE IF span.label = "LOC"
    THEN LET name == normalize_location(span.text, ex, morph)
         IN  IF validate_location(name, ex)
             THEN append_entity(entities, Toponyms, name) ELSE entities
    ELSE entities

\* the body of the loop over doc.ents in _extract_entities_en
en_span(entities, span, ex, morph) ==
    IF span.label = "PERSON"
    THEN LET name == normalize_name(span.text, ex)
         IN  IF validate_person(name, morph)
             THEN append_entity(entities, Persons, name) ELSE entities
    ELSE IF span.label = "ORG"
    THEN LET name == normalize_name(span.text, ex)
         IN  IF validate_org(name, ex)
             THEN append_entity(entities, Organizations, name) ELSE entities
    ELSE IF span.label \in {"GPE", "LOC"}
    THEN LET name == normalize_location(span.text, ex, morph)
         IN  IF validate_location(name, ex)
             THEN append_entity(entities, Toponyms, name) ELSE entities
    ELSE IF span.label = "PRODUCT"
    THEN append_entity(entities, Products, span.text)
    ELSE entities

RECURSIVE extract_entities_ru(_, _, _, _)
\* NERExtractor._extract_entities_ru, from the spans Natasha reported
extract_entities_ru(entities, spans, ex, morph) ==
    IF spans = <<>> THEN entities
    ELSE extract_entities_ru(ru_span(entities, spans[1], ex, morph), Tail(spans), ex, morph)

RECURSIVE en_spans(_, _, _, _)
en_spans(entities, spans, ex, morph) ==
    IF spans = <<>> THEN entities
    ELSE en_spans(en_span(entities, spans[1], ex, morph), Tail(spans), ex, morph)

\* NERExtractor._extract_entities_en, from the entities spaCy reported
extract_entities_en(spans, ex, morph) ==
    IF ~ex.nlp_en THEN <<>> ELSE en_spans(<<>>, spans, ex, morph)

\* \b at position p of t (between t[p-1] and t[p])
word_boundary(t, p) ==
    (p > 1 /\ p - 1 <= Len(t) /\ t[p - 1] \in WordChars)
        # (p >= 1 /\ p <= Len(t) /\ t[p] \in WordChars)

\* the search as a mutant: the pattern without its two \b
product_search_substring(product, text) ==
    \E p \in 1..(Len(text) - Len(product) + 1) :
        lower(SubSeq(text, p, p + Len(product) - 1)) = lower(product)

\* re.search(r'\b' + re.escape(product) + r'\b', text, re.IGNORECASE)
product_search(product, text) ==
    \E p \in 1..(Len(text) - Len(product) + 1) :
        /\ lower(SubSeq(text, p, p + Len(product) - 1)) = lower(product)
        /\ word_boundary(text, p)
        /\ word_boundary(text, p + Len(product))

\* NERExtractor._extract_products: the lists it can return, one for every
\* iteration order of the set self.products
extract_products(text, ex) ==
    {SelectSeq(order, LAMBDA product : product_search(product, text))
        : order \in Orderings(ex.products)}

RECURSIVE extend_entities(_, _, _)
\* all_entities[category].extend(names); an empty list still makes the key
extend_entities(all, category, names) ==
    IF \E i \in 1..Len(all) : all[i].key = category
    THEN [i \in 1..Len(all) |->
            IF all[i].key = category
            THEN [key |-> category, names |-> all[i].names \o names]
            ELSE all[i]]
    ELSE Append(all, [key |-> category, names |-> names])

RECURSIVE merge_entities(_, _)
\* for category, names in entities.items(): all_entities[category].extend(names)
merge_entities(all, entities) ==
    IF entities = <<>> THEN all
    ELSE merge_entities(extend_entities(all, entities[1].key, entities[1].names),
                        Tail(entities))

RECURSIVE all_entities_from(_, _, _, _)
\* all_entities after the loop over the corpus, for every order in which
\* _extract_products can list the products of a document
all_entities_from(all, corpus, ex, morph) ==
    IF corpus = <<>> THEN {all}
    ELSE LET item     == corpus[1]
             entities == IF item.language = "RU"
                         THEN extract_entities_ru(<<>>, item.spans, ex, morph)
                         ELSE extract_entities_en(item.spans, ex, morph)
             merged   == merge_entities(all, entities)
         IN  UNION {all_entities_from(extend_entities(merged, Products, products),
                                      Tail(corpus), ex, morph)
                    : products \in extract_products(item.text, ex)}

\* the threshold as a mutant: one threshold for every category
min_freq_one_threshold(category) == MIN_ENTITY_FREQUENCY

\* MIN_PERSON_FREQUENCY if category == 'Персоналии' else MIN_ENTITY_FREQUENCY
min_freq(category) ==
    IF category = Persons THEN MIN_PERSON_FREQUENCY ELSE MIN_ENTITY_FREQUENCY

\* one entry of results_by_category: count, filter, sort, format
ranked_entities(category, names) ==
    LET counter  == Counter(names)
        filtered == SelectSeq(counter, LAMBDA e : e.count >= min_freq(category))
        sorted   == SortByCountFrom(<<>>, filtered)
    IN  [i \in 1..Len(sorted) |-> [name |-> sorted[i].key, frequency |-> sorted[i].count]]

\* the dict returned for one value of all_entities
ner_results_of(all) ==
    LET by_category ==
            [i \in 1..Len(all) |->
                [key |-> all[i].key, entities |-> ranked_entities(all[i].key, all[i].names)]]
    IN  [by_category |-> by_category,
         total       |-> SumSeq([i \in 1..Len(by_category) |-> Len(by_category[i].entities)])]

\* NERExtractor.extract_from_corpus: the dicts it can return
extract_from_corpus(corpus, ex, morph) ==
    {ner_results_of(all) : all \in all_entities_from(<<>>, corpus, ex, morph)}

\* the tagger is called on every Russian text, and on every other text when
\* the English model is loaded; its exception is caught nowhere
extract_from_corpus_raises(corpus, ex, raises) ==
    \E i \in 1..Len(corpus) :
        /\ corpus[i].language = "RU" \/ ex.nlp_en
        /\ corpus[i].text \in raises

(***************************************************************************)
(* core/preprocessor.py.  pre is a Preprocessor: the stopwords of nltk and *)
(* the lemmas its two lemmatizers give, a word without an entry being its  *)
(* own lemma.                                                              *)
(***************************************************************************)
MIN_WORD_LENGTH == 3

\* Preprocessor.tokenize
tokenize(text) ==
    LET no_punct  == [i \in 1..Len(text) |->
                        IF text[i] \in WordChars \cup Whitespace THEN text[i] ELSE " "]
        no_digits == SelectSeq(no_punct, LAMBDA c : c \notin Digits)
    IN  SelectSeq(split(lower(no_digits)), LAMBDA t : Len(t) >= MIN_WORD_LENGTH)

\* Preprocessor.lemmatize
lemmatize(word, pre) == IF word \in DOMAIN pre.lemmas THEN pre.lemmas[word] ELSE word

\* Preprocessor.is_stopword
is_stopword(word, pre) == word \in pre.stopwords

\* Preprocessor.process_text
process_text(text, pre) ==
    LET tokens == tokenize(text)
        kept   == SelectSeq(tokens, LAMBDA t : /\ ~is_stopword(t, pre)
                                               /\ ~is_stopword(lemmatize(t, pre), pre))
    IN  [tokens |-> tokens, lemmas |-> [i \in 1..Len(kept) |-> lemmatize(kept[i], pre)]]

\* Preprocessor.process_texts
process_texts(texts, pre) ==
    [tokens |-> [i \in 1..Len(texts) |-> process_text(texts[i], pre).tokens],
     lemmas |-> [i \in 1..Len(texts) |-> process_text(texts[i], pre).lemmas]]

(***************************************************************************)
(* core/pdf_parser.py.  A directory is the sequence of its PDF files, each *)
(* [readable, item]: item is what extract_text returns for it, and a file  *)
(* that is not readable makes extract_text raise.                          *)
(***************************************************************************)
\* PDFParser.extract_all
extract_all(dir) ==
    LET readable == SelectSeq(dir, LAMBDA pdf : pdf.readable)
    IN  [i \in 1..Len(readable) |-> readable[i].item]

(***************************************************************************)
(* core/cache.py.  The cache is a function of the entry names; Missing is  *)
(* an entry without a file, for which load returns None.                   *)
(***************************************************************************)
Missing == [missing |-> TRUE]
CacheEntries == {"extracted", "frequency", "terms", "names"}

\* CacheManager.save
save(c, name, data) == [c EXCEPT ![name] = [missing |-> FALSE, data |-> data]]

\* CacheManager.load
load(c, name) == c[name]

\* CacheManager.clear_all
clear_all(c) == [e \in CacheEntries |-> Missing]

(***************************************************************************)
(* main.py.  A command maps the cache to its outcomes [cache, writes,      *)
(* raised]: the cache it leaves, the entries it saved, and whether an      *)
(* exception ended it.  The files it writes to OUTPUT_DIR are not part of  *)
(* the cache.  env is what the engines are constructed with.               *)
(***************************************************************************)
\* the mutant of `not extracted`: None only, an empty list passes
is_none(loaded) == loaded = Missing

\* `not extracted`: None or an empty list
not_(loaded) == IF loaded = Missing THEN TRUE ELSE loaded.data = <<>>

Outcome(c, writes, raised) == [cache |-> c, writes |-> writes, raised |-> raised]

item_texts(extracted) == [i \in 1..Len(extracted) |-> extracted[i].text]

cmd_extract(c, env) ==
    {Outcome(save(c, "extracted", extract_all(env.dir)), {"extracted"}, FALSE)}

cmd_analyze(c, env) ==
    LET extracted == load(c, "extracted")
    IN  IF not_(extracted) THEN {Outcome(c, {}, FALSE)}
        ELSE LET lemmas == process_texts(item_texts(extracted.data), env.pre).lemmas
             IN  {Outcome(save(c, "frequency", analyze(lemmas)), {"frequency"}, FALSE)}

cmd_terms(c, env) ==
    LET extracted == load(c, "extracted")
    IN  IF not_(extracted) THEN {Outcome(c, {}, FALSE)}
        ELSE LET texts == item_texts(extracted.data)
             IN  IF build_index_raises(texts, env.morph_raises)
                 THEN {Outcome(c, {}, TRUE)}
                 ELSE {Outcome(save(c, "terms", results), {"terms"}, FALSE)
                         : results \in build_index(texts, env.domain, env.tagged,
                                                   env.stopwords)}

cmd_names(c, env) ==
    LET extracted == load(c, "extracted")
    IN  IF not_(extracted) THEN {Outcome(c, {}, FALSE)}
        ELSE IF extract_from_corpus_raises(extracted.data, env.extractor, env.tagger_raises)
             THEN {Outcome(c, {}, TRUE)}
             ELSE {Outcome(save(c, "names", results), {"names"}, FALSE)
                     : results \in extract_from_corpus(extracted.data, env.extractor,
                                                       env.morph)}

\* one command after another; an exception ends the sequence
then(o, next) ==
    IF o.raised THEN {o}
    ELSE {Outcome(n.cache, o.writes \cup n.writes, n.raised) : n \in next}

cmd_all(c, env) ==
    LET extracted == cmd_extract(c, env)
        analyzed  == UNION {then(o, cmd_analyze(o.cache, env)) : o \in extracted}
        indexed   == UNION {then(o, cmd_terms(o.cache, env)) : o \in analyzed}
    IN  UNION {then(o, cmd_names(o.cache, env)) : o \in indexed}

cmd_status(c, env) == {Outcome(c, {}, FALSE)}

cmd_clear(c, env) == {Outcome(clear_all(c), {}, FALSE)}

\* ---- inputs of the frequency engine
MaxLemmas == 5
Lemmas == {"a", "b", "c"}

\* ten tokens whose top lemma occurs five times
SpecExampleCorpus == <<<<"a", "b", "a", "c", "a", "b", "a", "c", "a", "b">>>>

\* a flat lemma sequence cut into one or two documents, or no document at all
LemmaListInputs ==
    {<<>>, SpecExampleCorpus} \cup
    UNION {{<<s>>} \cup {<<SubSeq(s, 1, k), SubSeq(s, k + 1, Len(s))>> : k \in 0..Len(s)}
           : s \in SeqsUpTo(Lemmas, MaxLemmas)}

FreqIdle == lemma_lists = <<>> /\ freq_results = NoResult

\* ---- what a NERExtractor is constructed with
JOURNAL == <<"j", "o", "u", "r", "n", "a", "l">>
STREET == <<"s", "t", "r", "e", "e", "t">>
RF == <<"R", "F">>
RUSSIA == <<"R", "u", "s", "s", "i", "a">>
Word == <<"W", "o", "r", "d">>
Xl == <<"X", "l">>
Cy == <<"C", "y">>
Ivan == <<"I", "v", "a", "n">>
Omska == <<"O", "m", "s", "k", "a">>
omsk == <<"o", "m", "s", "k">>

\* the data files, with spaCy's model installed or not
Extractor(nlp_en) ==
    [location_abbr_map |-> (RF :> RUSSIA),
     journal_markers   |-> {JOURNAL},
     address_markers   |-> {STREET},
     products          |-> {Word, Xl},
     nlp_en            |-> nlp_en]

\* pymorphy: the words it tags as a name, and the case and the nominative of
\* the words it knows
Morph(names) ==
    [names |-> names,
     cases |-> (Omska :> [nomn |-> FALSE, inflected |-> omsk])]

NameIdle == span_text = <<>> /\ org_valid = <<>> /\ loc_normalized = <<>>

CliIdle ==
    /\ cache = [e \in CacheEntries |-> Missing] /\ corpus_dir = <<>> /\ last_command = "none"
    /\ cache_writes = {}

NerIdle ==
    /\ ner_corpus = <<>> /\ extractor = Extractor(TRUE) /\ morph_analyzer = Morph({})
    /\ ner_results = NoResult /\ person_name = <<>> /\ person_valid = <<>>
    /\ tagger_raises = {} /\ ner_raised = FALSE
    /\ NameIdle
    /\ CliIdle
TermIdle ==
    /\ corpus_texts = <<>> /\ domain_terms = {} /\ abbr_stopwords = {} /\ morph_nouns_adjs = {}
    /\ term_results = NoResult /\ term_df = <<>>
    /\ morph_raises = {} /\ term_raised = FALSE

InitFreq ==
    /\ lemma_lists \in LemmaListInputs
    /\ freq_results = NoResult
    /\ TermIdle
    /\ NerIdle

FrequencyAnalyzer_analyze ==
    /\ freq_results' = analyze(lemma_lists)
    /\ UNCHANGED <<lemma_lists, termVars, nerVars, personVars, nameVars, cliVars>>

NextFreq == FrequencyAnalyzer_analyze

SpecFreq == InitFreq /\ [][NextFreq]_vars


\* ---- inputs of the term index builder
MaxWords == 4
MaxDocs == 2

abc == <<"a", "b", "c">>
xyz == <<"x", "y", "z">>
ab == <<"a", "b">>
TermPieces == {abc, xyz, ab}

\* a document of up to n pieces, separated by blanks
DocsUpTo(pieces, n) == {join(<<" ">>, ws) : ws \in SeqsUpTo(pieces, n)}

\* seven and five words: every bigram and trigram three times or more
RepeatedDocs ==
    {join(<<" ">>, <<abc, xyz, abc, xyz, abc, xyz, abc>>),
     join(<<" ">>, <<ab, ab, ab, ab, ab>>)}
LongDocs == DocsUpTo(TermPieces, MaxWords) \cup RepeatedDocs
ShortDocs == {abc, xyz}

\* up to MaxDocs documents; one of them is any document of up to MaxWords
\* pieces (the empty text too), the others are one word each
TermCorpora ==
    {<<>>} \cup
    UNION {{[i \in 1..n |-> IF i = k THEN long ELSE short[i]] :
               long \in LongDocs, short \in [1..n -> ShortDocs], k \in 1..n}
           : n \in 1..MaxDocs}

\* the lexicon and the tagger a builder is constructed with
TermBuilders ==
    {[domain |-> {}, tagged |-> {abc, xyz}],
     [domain |-> {abc}, tagged |-> {abc, xyz}],
     [domain |-> {xyz, join(<<" ">>, <<ab, ab>>)}, tagged |-> {abc}]}

InitTerms ==
    /\ corpus_texts \in TermCorpora
    /\ \E b \in TermBuilders : domain_terms = b.domain /\ morph_nouns_adjs = b.tagged
    /\ abbr_stopwords = {}
    /\ term_results = NoResult
    /\ term_df = <<>>
    /\ morph_raises = {}
    /\ term_raised = FALSE
    /\ FreqIdle
    /\ NerIdle

\* build_index catches nothing: an exception of morph.parse in extract_terms
\* leaves it before self.results is assigned
TermIndexBuilder_build_index ==
    /\ IF build_index_raises(corpus_texts, morph_raises)
       THEN /\ term_raised' = TRUE
            /\ UNCHANGED <<term_results, term_df>>
       ELSE /\ term_raised' = FALSE
            /\ term_results' \in build_index(corpus_texts, domain_terms, morph_nouns_adjs,
                                             abbr_stopwords)
            /\ term_df' = <<document_frequency(term_doc_words(corpus_texts)),
                            document_frequency(doc_ngrams_of(corpus_texts, 2)),
                            document_frequency(doc_ngrams_of(corpus_texts, 3))>>
    /\ UNCHANGED <<corpus_texts, domain_terms, abbr_stopwords, morph_nouns_adjs, morph_raises,
                   freqVars, nerVars, personVars, nameVars, cliVars>>

NextTerms == TermIndexBuilder_build_index

SpecTerms == InitTerms /\ [][NextTerms]_vars

\* ---- inputs of the abbreviation scan
MaxAbbrPieces == 3

NLP == <<"N", "L", "P">>
OK == <<"O", "K">>
P1 == <<"P", "1">>
ab_c == <<"a", "b", " ", "c">>
ab__c == <<"a", "b", " ", "\n", "c">>
in_parens(t) == <<"(">> \o t \o <<")">>

AbbrPieces ==
    {NLP \o <<" ">> \o in_parens(ab_c),     \* NLP (ab c)
     NLP \o in_parens(ab__c),               \* NLP(ab \nc)
     ab_c \o <<" ">> \o in_parens(NLP),     \* ab c (NLP)
     P1 \o <<" ">> \o in_parens(ab_c),      \* P1 (ab c)
     OK \o <<" ">> \o in_parens(ab_c),      \* OK (ab c)
     in_parens(OK)}                         \* (OK)

AbbrLongDocs == DocsUpTo(AbbrPieces, MaxAbbrPieces)
AbbrShortDocs == {NLP \o <<" ">> \o in_parens(ab__c), ab_c \o <<" ">> \o in_parens(NLP)}

\* no document, one document, or one document next to a one-piece document
AbbrCorpora ==
    {<<>>} \cup {<<d>> : d \in AbbrLongDocs}
    \cup {<<d, e>> : d \in AbbrLongDocs, e \in AbbrShortDocs}
    \cup {<<e, d>> : d \in AbbrLongDocs, e \in AbbrShortDocs}

StopwordLexicons == {{}, {OK}}

InitAbbr ==
    /\ corpus_texts \in AbbrCorpora
    /\ domain_terms = {}
    /\ morph_nouns_adjs = {abc, xyz}
    /\ abbr_stopwords \in StopwordLexicons
    /\ term_results = NoResult
    /\ term_df = <<>>
    /\ morph_raises = {}
    /\ term_raised = FALSE
    /\ FreqIdle
    /\ NerIdle

SpecAbbr == InitAbbr /\ [][NextTerms]_vars

\* ---- inputs of the entity extractor
MaxSpans == 3

AlBo == <<"A", "l", " ", "B", "o">>
Al__Bo == <<"A", "l", " ", " ", "B", "o">>
BoCompany == <<"B", "o", " ", "c", "o", "m", "p", "a", "n", "y">>
OmskaObl == <<"O", "m", "s", "k", "a", " ", "o", "b", "l">>

\* what a tagger can find in a document: the category and the text of a span
SpanKinds ==
    {[kind |-> "person", text |-> AlBo],
     [kind |-> "person", text |-> Al__Bo],
     [kind |-> "person", text |-> Cy],
     [kind |-> "organization", text |-> BoCompany],
     [kind |-> "location", text |-> OmskaObl],
     [kind |-> "product", text |-> Xl]}

\* Natasha's span.type and spaCy's ent.label_ for a category
Label(language, kind) ==
    IF language = "RU"
    THEN CASE kind = "person" -> "PER" [] kind = "organization" -> "ORG"
           [] kind = "location" -> "LOC"
    ELSE CASE kind = "person" -> "PERSON" [] kind = "organization" -> "ORG"
           [] kind = "location" -> "GPE" [] kind = "product" -> "PRODUCT"

\* a Russian text naming both products, an English one naming Xl only
DocKinds ==
    {[language |-> "RU", text |-> <<"W", "o", "r", "d", " ", "x", "l">>],
     [language |-> "EN", text |-> <<"s", "w", "o", "r", "d", "s", " ", "X", "l">>]}

Document(dk, found) ==
    [text     |-> dk.text,
     language |-> dk.language,
     spans    |-> [i \in 1..Len(found) |->
                     [label |-> Label(dk.language, found[i].kind), text |-> found[i].text]]]

\* Natasha reports no product spans
Taggable(dk, found) ==
    dk.language = "RU" => \A i \in 1..Len(found) : found[i].kind # "product"

\* up to MaxSpans spans, in no document, in one, or cut over two documents
\* of which one at least is Russian
NerCorpora ==
    {<<>>} \cup
    UNION {{<<Document(dk, s)>> : dk \in {d \in DocKinds : Taggable(d, s)}}
           \cup UNION {{<<Document(pair[1], SubSeq(s, 1, k)),
                            Document(pair[2], SubSeq(s, k + 1, Len(s)))>>
                          : pair \in {pr \in DocKinds \X DocKinds :
                                        /\ Taggable(pr[1], SubSeq(s, 1, k))
                                        /\ Taggable(pr[2], SubSeq(s, k + 1, Len(s)))
                                        /\ "RU" \in {pr[1].language, pr[2].language}}}
                       : k \in 0..Len(s)}
           : s \in SeqsUpTo(SpanKinds, MaxSpans)}

\* spaCy's model loaded and Cy known as a name, or neither
NerSetups ==
    {[nlp_en |-> TRUE, names |-> {Cy}],
     [nlp_en |-> FALSE, names |-> {}]}

PersonIdle == person_name = <<>> /\ person_valid = <<>>

InitNer ==
    /\ ner_corpus \in NerCorpora
    /\ \E setup \in NerSetups :
          extractor = Extractor(setup.nlp_en) /\ morph_analyzer = Morph(setup.names)
    /\ ner_results = NoResult
    /\ tagger_raises = {}
    /\ ner_raised = FALSE
    /\ PersonIdle
    /\ NameIdle
    /\ CliIdle
    /\ FreqIdle
    /\ TermIdle

\* extract_from_corpus catches nothing: an exception of the tagger leaves it
\* before self.results is assigned
NERExtractor_extract_from_corpus ==
    /\ IF extract_from_corpus_raises(ner_corpus, extractor, tagger_raises)
       THEN /\ ner_raised' = TRUE
            /\ UNCHANGED ner_results
       ELSE /\ ner_raised' = FALSE
            /\ ner_results' \in extract_from_corpus(ner_corpus, extractor, morph_analyzer)
    /\ UNCHANGED <<ner_corpus, extractor, morph_analyzer, tagger_raises, personVars, freqVars,
                   termVars, nameVars, cliVars>>

NextNer == NERExtractor_extract_from_corpus

SpecNer == InitNer /\ [][NextNer]_vars

\* ---- inputs of the person validation
MaxNameParts == 3

NameParts ==
    {<<"J", ".">>,
     <<"K", ".">>,
     <<"J", ".", "K", ".">>,
     <<"R", "o", "w", "l", "i", "n", "g">>,
     <<"e", "t">>,
     <<"a", "l", ".">>,
     <<"2", "0", "2", "0">>,
     <<"P", "r", "o", "c">>,
     <<"I", "v", "a", "n">>,
     <<"x">>}

PersonNames == {join(<<" ">>, parts) : parts \in SeqsUpTo(NameParts, MaxNameParts)}

InitPerson ==
    /\ person_name \in PersonNames
    /\ person_valid = <<>>
    /\ morph_analyzer \in {Morph({}), Morph({Ivan, <<"x">>})}
    /\ ner_corpus = <<>> /\ extractor = Extractor(TRUE) /\ ner_results = NoResult
    /\ tagger_raises = {} /\ ner_raised = FALSE
    /\ NameIdle
    /\ CliIdle
    /\ FreqIdle
    /\ TermIdle

NERExtractor_validate_person ==
    /\ person_valid' = <<validate_person(person_name, morph_analyzer)>>
    /\ UNCHANGED <<person_name, nerVars, freqVars, termVars, nameVars, cliVars>>

NextPerson == NERExtractor_validate_person

SpecPerson == InitPerson /\ [][NextPerson]_vars

\* ---- inputs of the organization validation and the location normalization
MaxSpanWords == 2

Journal == <<"J", "o", "u", "r", "n", "a", "l">>
Bo == <<"B", "o">>
obl == <<"o", "b", "l">>
OmskObl == <<"O", "m", "s", "k", " ", "o", "b", "l">>
OmskRegion == <<"O", "m", "s", "k", " ", "r", "e", "g", "i", "o", "n">>

SpanWords == {Omska, RF, obl, Bo, ORG_COMPANY, JOURNAL, Journal}
SpanTexts == {join(<<" ">>, words) : words \in SeqsUpTo(SpanWords, MaxSpanWords)}

\* journal_markers.txt lists the marker in lower case, or capitalised;
\* location_abbr.txt maps an abbreviation and a two-word name
NameExtractors ==
    {[Extractor(TRUE) EXCEPT !.journal_markers = markers,
                             !.location_abbr_map = (RF :> RUSSIA) @@ (OmskObl :> OmskRegion)]
        : markers \in {{JOURNAL}, {Journal}}}

\* Omska is a genitive the analyzer can inflect, RF a nominative, obl a word
\* it cannot inflect
NameMorph ==
    [names |-> {},
     cases |-> (Omska :> [nomn |-> FALSE, inflected |-> omsk])
               @@ (RF :> [nomn |-> TRUE, inflected |-> <<"r", "f">>])
               @@ (obl :> [nomn |-> FALSE, inflected |-> <<>>])]

InitNames ==
    /\ span_text \in SpanTexts
    /\ org_valid = <<>>
    /\ loc_normalized = <<>>
    /\ extractor \in NameExtractors
    /\ morph_analyzer = NameMorph
    /\ ner_corpus = <<>> /\ ner_results = NoResult
    /\ tagger_raises = {} /\ ner_raised = FALSE
    /\ PersonIdle
    /\ CliIdle
    /\ FreqIdle
    /\ TermIdle

NERExtractor_validate_org ==
    /\ org_valid' = <<validate_org(span_text, extractor)>>
    /\ UNCHANGED <<span_text, loc_normalized, nerVars, personVars, freqVars, termVars, cliVars>>

NERExtractor_normalize_location ==
    /\ loc_normalized' = <<normalize_location(span_text, extractor, morph_analyzer)>>
    /\ UNCHANGED <<span_text, org_valid, nerVars, personVars, freqVars, termVars, cliVars>>

NextNames == NERExtractor_validate_org \/ NERExtractor_normalize_location

SpecNames == InitNames /\ [][NextNames]_vars

\* ---- the three engines over one batch, with calls that may raise
BatchLemmaLists == {<<>>, <<<<>>>>} \cup {SpecExampleCorpus}
BatchTexts == {<<>>, <<abc>>, <<abc, xyz>>, <<join(<<" ">>, <<xyz, abc>>), abc>>}

RuDoc == Document([language |-> "RU", text |-> <<"W", "o", "r", "d", " ", "x", "l">>],
                  <<[kind |-> "person", text |-> AlBo]>>)
EnDoc == Document([language |-> "EN", text |-> <<"s", "w", "o", "r", "d", "s", " ", "X", "l">>],
                  <<[kind |-> "person", text |-> Cy], [kind |-> "product", text |-> Xl]>>)
BatchNerCorpora == {<<>>, <<RuDoc>>, <<RuDoc, EnDoc>>, <<EnDoc, RuDoc>>}

InitBatch ==
    /\ lemma_lists \in BatchLemmaLists
    /\ freq_results = NoResult
    /\ corpus_texts \in BatchTexts
    /\ domain_terms = {abc} /\ morph_nouns_adjs = {abc, xyz} /\ abbr_stopwords = {}
    /\ term_results = NoResult /\ term_df = <<>>
    /\ morph_raises \in {{}, {xyz}}
    /\ term_raised = FALSE
    /\ ner_corpus \in BatchNerCorpora
    /\ extractor = Extractor(TRUE) /\ morph_analyzer = Morph({Cy})
    /\ ner_results = NoResult
    /\ tagger_raises \in {{}, {RuDoc.text}}
    /\ ner_raised = FALSE
    /\ PersonIdle
    /\ NameIdle
    /\ CliIdle

NextBatch ==
    \/ FrequencyAnalyzer_analyze
    \/ TermIndexBuilder_build_index
    \/ NERExtractor_extract_from_corpus

SpecBatch == InitBatch /\ [][NextBatch]_vars

\* ---- inputs of the n-gram scoring: n-grams shared by several documents
MaxNgramWords == 4

NgramDocs == DocsUpTo({abc, xyz}, MaxNgramWords)
ThirdDocs == {join(<<" ">>, <<abc, abc, abc, abc, xyz>>), join(<<" ">>, <<xyz, abc>>)}

\* no document, one, two, or two and a third one
NgramCorpora ==
    {<<>>} \cup {<<d>> : d \in NgramDocs}
    \cup {<<d, e>> : d \in NgramDocs, e \in NgramDocs}
    \cup {<<d, e, f>> : d \in NgramDocs, e \in NgramDocs, f \in ThirdDocs}

InitNgram ==
    /\ corpus_texts \in NgramCorpora
    /\ domain_terms = {abc, join(<<" ">>, <<abc, abc>>)}
    /\ morph_nouns_adjs = {abc, xyz}
    /\ abbr_stopwords = {}
    /\ term_results = NoResult
    /\ term_df = <<>>
    /\ morph_raises = {}
    /\ term_raised = FALSE
    /\ FreqIdle
    /\ NerIdle

SpecNgram == InitNgram /\ [][NextTerms]_vars

\* ---- the command line over a corpus directory
MaxPdfs == 2

lowerWord == <<"w", "o", "r", "d">>
sword == <<"s", "w", "o", "r", "d">>
swords == <<"s", "w", "o", "r", "d", "s">>

\* a Russian file, an English one, and one PyMuPDF cannot open
Pdfs ==
    {[readable |-> TRUE, item |-> RuDoc],
     [readable |-> TRUE, item |-> EnDoc],
     [readable |-> FALSE, item |-> EnDoc]}

\* swords has the lemma sword, which is a stopword
CliPreprocessor == [stopwords |-> {sword}, lemmas |-> (swords :> sword)]

Env ==
    [dir           |-> corpus_dir,
     pre           |-> CliPreprocessor,
     domain        |-> domain_terms,
     tagged        |-> morph_nouns_adjs,
     stopwords     |-> abbr_stopwords,
     morph_raises  |-> morph_raises,
     extractor     |-> extractor,
     morph         |-> morph_analyzer,
     tagger_raises |-> tagger_raises]

InitCli ==
    /\ corpus_dir \in SeqsUpTo(Pdfs, MaxPdfs)
    /\ cache = [e \in CacheEntries |-> Missing]
    /\ last_command = "none"
    /\ cache_writes = {}
    /\ corpus_texts = <<>>
    /\ domain_terms = {lowerWord} /\ morph_nouns_adjs = {lowerWord, swords} /\ abbr_stopwords = {}
    /\ term_results = NoResult /\ term_df = <<>>
    /\ morph_raises \in {{}, {swords}}
    /\ term_raised = FALSE
    /\ ner_corpus = <<>>
    /\ extractor = Extractor(TRUE) /\ morph_analyzer = Morph({Cy})
    /\ ner_results = NoResult
    /\ tagger_raises \in {{}, {RuDoc.text}}
    /\ ner_raised = FALSE
    /\ PersonIdle
    /\ NameIdle
    /\ FreqIdle

\* main: the command named on the command line runs on what the cache holds
Run(name, outcomes) ==
    /\ \E o \in outcomes : cache' = o.cache /\ cache_writes' = o.writes
    /\ last_command' = name
    /\ UNCHANGED <<corpus_dir, freqVars, termVars, nerVars, personVars, nameVars>>

main_extract == Run("extract", cmd_extract(cache, Env))
main_analyze == Run("analyze", cmd_analyze(cache, Env))
main_terms == Run("terms", cmd_terms(cache, Env))
main_names == Run("names", cmd_names(cache, Env))
main_all == Run("all", cmd_all(cache, Env))
main_status == Run("status", cmd_status(cache, Env))
main_clear == Run("clear", cmd_clear(cache, Env))

NextCli ==
    \/ main_extract
    \/ main_analyze
    \/ main_terms
    \/ main_names
    \/ main_all
    \/ main_status
    \/ main_clear

SpecCli == InitCli /\ [][NextCli]_vars

(***************************************************************************)
(* Claims about FrequencyAnalyzer.analyze, stated on the argument          *)
(* lemma_lists and the returned dict, without the engine's own helpers.    *)
(***************************************************************************)
Analyzed == freq_results # NoResult

\* the lemma at position p of the corpus read document by document
TokenCount == SumSeq([d \in 1..Len(lemma_lists) |-> Len(lemma_lists[d])])
TokenPositions ==
    UNION {{<<d, i>> : i \in 1..Len(lemma_lists[d])} : d \in 1..Len(lemma_lists)}
LemmaAt(p) == lemma_lists[p[1]][p[2]]
Occurrences(x) == Cardinality({p \in TokenPositions : LemmaAt(p) = x})
DistinctLemmas == {LemmaAt(p) : p \in TokenPositions}
Earlier(p, q) == p[1] < q[1] \/ (p[1] = q[1] /\ p[2] < q[2])
FirstSeenBefore(x, y) ==
    \E p \in TokenPositions :
        /\ LemmaAt(p) = x
        /\ \A q \in TokenPositions : LemmaAt(q) = y => Earlier(p, q)
\* occurrences covered by the lemmas of ranks 1..r of the returned freq_dict
Covered(r) == SumSeq([i \in 1..r |-> Occurrences(freq_results.freq_dict[i].lemma)])

\* C6: core_lexicon_size is the smallest rank whose cumulative frequency is
\* at least half of the token count M; it is 0 for a corpus without tokens
\* and between 1 and N otherwise.
C6_CoreLexiconSmallestRank ==
    Analyzed =>
        LET c == freq_results.core_lexicon_size
        IN  IF TokenCount = 0 THEN c = 0
            ELSE /\ c \in 1..Cardinality(DistinctLemmas)
                 /\ c <= Len(freq_results.freq_dict)
                 /\ 2 * Covered(c) >= TokenCount
                 /\ \A r \in 1..(c - 1) : 2 * Covered(r) < TokenCount

\* the top lemma covers exactly half of the tokens, so rank 1 is the core
C6_Witness ==
    /\ Analyzed
    /\ TokenCount >= 4
    /\ freq_results.N >= 2
    /\ 2 * freq_results.freq_dict[1].frequency = TokenCount
    /\ freq_results.core_lexicon_size = 1

\* C7: for a non-empty lemma collection the relative frequencies sum to 100
\* (the frequencies sum to M), and cumulative_freq never decreases along
\* the ranks and is M at the last rank.
C7_RelativeSumAndCumulative ==
    (Analyzed /\ TokenCount > 0) =>
        LET fd == freq_results.freq_dict
            n  == Len(fd)
        IN  /\ n >= 1
            /\ \A i \in 1..n : fd[i].relative_freq.den = TokenCount
            /\ SumSeq([i \in 1..n |-> fd[i].relative_freq.num]) = 100 * TokenCount
            /\ SumSeq([i \in 1..n |-> fd[i].frequency]) = TokenCount
            /\ \A i \in 1..(n - 1) : fd[i].cumulative_freq <= fd[i + 1].cumulative_freq
            /\ fd[n].cumulative_freq = TokenCount

C7_Witness ==
    /\ Analyzed
    /\ Len(freq_results.freq_dict) = 3
    /\ freq_results.freq_dict[1].frequency = 2
    /\ freq_results.freq_dict[3].cumulative_freq = 5

\* C8: ranks are 1..N without gaps, frequencies do not increase with the
\* rank, and lemmas of equal frequency keep the order in which they were
\* first encountered in the flattened lemma sequence.
C8_RanksStableDescending ==
    Analyzed =>
        LET fd == freq_results.freq_dict
            n  == Len(fd)
        IN  /\ n = Cardinality(DistinctLemmas)
            /\ {fd[i].lemma : i \in 1..n} = DistinctLemmas
            /\ \A i \in 1..n : fd[i].rank = i
            /\ \A i \in 1..(n - 1) : fd[i].frequency >= fd[i + 1].frequency
            /\ \A i, j \in 1..n :
                   (i < j /\ fd[i].frequency = fd[j].frequency)
                       => FirstSeenBefore(fd[i].lemma, fd[j].lemma)

\* a tie between two lemmas behind a lemma that was first seen after both
C8_Witness ==
    /\ Analyzed
    /\ Len(lemma_lists) = 2
    /\ Len(freq_results.freq_dict) = 3
    /\ freq_results.freq_dict[2].frequency = freq_results.freq_dict[3].frequency
    /\ freq_results.freq_dict[1].frequency > freq_results.freq_dict[2].frequency
    /\ FirstSeenBefore(freq_results.freq_dict[2].lemma, freq_results.freq_dict[1].lemma)


(***************************************************************************)
(* Claims about TermIndexBuilder, stated on the texts, the lexicons and    *)
(* the returned dict.                                                      *)
(***************************************************************************)
Built == term_results # NoResult
NumDocs == Len(corpus_texts)

CountIn(w, items) == Cardinality({i \in 1..Len(items) : items[i] = w})
DocsWith(w, docs) == {d \in 1..Len(docs) : CountIn(w, docs[d]) > 0}
DocScore(w, d, docs) ==
    [num |-> CountIn(w, docs[d])
                * idf_micro(Len(docs), Cardinality(DocsWith(w, docs)))
                * (IF w \in domain_terms THEN DOMAIN_BOOST ELSE 1),
     den |-> Len(docs[d])]

\* C2: the tfidf_score of a returned unigram w is the maximum, over the
\* documents containing w, of that document's tf*idf (times the domain boost
\* for a domain term); with one containing document it is that document's
\* score.
C2_ScoreIsMaxOverDocs ==
    Built =>
        LET docs == term_doc_words(corpus_texts)
        IN  \A k \in 1..Len(term_results.terms) :
                LET e    == term_results.terms[k]
                    with == DocsWith(e.term, docs)
                IN  /\ with # {}
                    /\ \E d \in with : ScoreEQ(e.tfidf_score, DocScore(e.term, d, docs))
                    /\ \A d \in with : ScoreGE(e.tfidf_score, DocScore(e.term, d, docs))

\* a boosted term scored differently by two documents
C2_Witness ==
    /\ Built
    /\ LET docs == term_doc_words(corpus_texts)
       IN  \E k \in 1..Len(term_results.terms) :
              LET e == term_results.terms[k]
              IN  /\ e.in_domain
                  /\ DocsWith(e.term, docs) = {1, 2}
                  /\ ScoreGT(DocScore(e.term, 2, docs), DocScore(e.term, 1, docs))
                  /\ ScoreEQ(e.tfidf_score, DocScore(e.term, 2, docs))

\* the items (words, bigrams, trigrams) of every document
ItemsOf(n) ==
    IF n = 1 THEN term_doc_words(corpus_texts) ELSE doc_ngrams_of(corpus_texts, n)
AllItems(docs) == UNION {Range(docs[d]) : d \in 1..Len(docs)}
ResultList(n) ==
    IF n = 1 THEN term_results.terms
    ELSE IF n = 2 THEN term_results.bigrams ELSE term_results.trigrams

\* C3: df[w] is the number of documents in which w occurs at least once,
\* for words and for n-grams: occurrences inside one document add 1, and
\* 1 <= df[w] <= numDocs for every scored w.
C3_DocumentFrequency ==
    Built =>
        \A n \in 1..3 :
            LET docs == ItemsOf(n)
                all  == AllItems(docs)
            IN  /\ DOMAIN term_df[n] = all
                /\ \A w \in all :
                      /\ term_df[n][w] =
                            Cardinality({d \in 1..NumDocs : CountIn(w, docs[d]) >= 1})
                      /\ term_df[n][w] >= 1
                      /\ term_df[n][w] <= NumDocs
                /\ \A k \in 1..Len(ResultList(n)) : ResultList(n)[k].term \in all

\* a word and a bigram repeated inside one of two documents
C3_Witness ==
    /\ Built
    /\ NumDocs = 2
    /\ LET docs == ItemsOf(1)
       IN  \E w \in AllItems(docs) :
              /\ CountIn(w, docs[1]) >= 2
              /\ CountIn(w, docs[2]) = 1
              /\ term_df[1][w] = 2
    /\ LET docs == ItemsOf(2)
       IN  \E g \in AllItems(docs) :
              /\ CountIn(g, docs[1]) >= 3
              /\ term_df[2][g] = 1
              /\ \E k \in 1..Len(term_results.bigrams) : term_results.bigrams[k].term = g

\* every match of the two patterns in the corpus, document by document
CorpusMatches == [d \in 1..NumDocs |-> abbr_matches(corpus_texts[d])]
MatchesOf(a, matches) ==
    {<<d, i>> \in UNION {{<<e, j>> : j \in 1..Len(matches[e])} : e \in 1..Len(matches)} :
        matches[d][i].abbr = a}
\* an expansion with its white space collapsed is known by its words
DistinctExpansions(a, matches) ==
    {split(matches[p[1]][p[2]].group) : p \in MatchesOf(a, matches)}

\* C4: the frequency of an abbreviation record is the number of distinct
\* whitespace-collapsed expansions collected for the abbreviation over the
\* corpus, not the number of matches: one expansion seen many times gives 1.
C4_FrequencyCountsDistinctExpansions ==
    Built =>
        LET matches == CorpusMatches
        IN  \A k \in 1..Len(term_results.abbreviations) :
                LET r == term_results.abbreviations[k]
                IN  /\ r.frequency = Cardinality(DistinctExpansions(r.abbreviation, matches))
                    /\ r.frequency >= 1
                    /\ r.frequency <= Cardinality(MatchesOf(r.abbreviation, matches))

\* one expansion matched three times, spaced differently, counted once
C4_Witness ==
    /\ Built
    /\ LET matches == CorpusMatches
       IN  \E k \in 1..Len(term_results.abbreviations) :
              LET r == term_results.abbreviations[k]
                  at == MatchesOf(r.abbreviation, matches)
              IN  /\ Cardinality(at) >= 3
                  /\ Cardinality({matches[p[1]][p[2]].group : p \in at}) >= 2
                  /\ r.frequency = 1
                  /\ r.expansion = ab_c

\* C5: no returned record has an abbreviation of the stopword set, or one
\* made of one upper-case letter and one digit.
C5_StopwordsAndVariablesDropped ==
    Built =>
        \A k \in 1..Len(term_results.abbreviations) :
            LET a == term_results.abbreviations[k].abbreviation
            IN  /\ a \notin abbr_stopwords
                /\ ~(Len(a) = 2 /\ a[1] \in LatinUpper /\ a[2] \in Digits)

\* a stopword collected with two expansions, and "P1 (ab c)" in the text
C5_Witness ==
    /\ Built
    /\ \E a \in abbr_stopwords : Cardinality(DistinctExpansions(a, CorpusMatches)) >= 2
    /\ \E d \in 1..NumDocs : contains(corpus_texts[d], P1 \o <<" ", "(">>)
    /\ Len(term_results.abbreviations) >= 1


(***************************************************************************)
(* Claims about NERExtractor.extract_from_corpus, stated on the spans and  *)
(* the texts of ner_corpus and on the returned dict.                       *)
(***************************************************************************)
Extracted == ner_results # NoResult
Categories == {Persons, Organizations, Toponyms, Products}

\* the list the result holds for a category; none when the key is absent
OutputOf(c) ==
    LET bc == ner_results.by_category
    IN  IF \E i \in 1..Len(bc) : bc[i].key = c
        THEN bc[CHOOSE i \in 1..Len(bc) : bc[i].key = c].entities
        ELSE <<>>

\* the spans a document was tagged with: none for a non-Russian document
\* when the English model is missing
TaggedSpans(d) ==
    IF ner_corpus[d].language = "RU" \/ extractor.nlp_en THEN ner_corpus[d].spans ELSE <<>>

CategoryOf(label) ==
    CASE label \in {"PER", "PERSON"} -> Persons
      [] label = "ORG" -> Organizations
      [] label \in {"LOC", "GPE"} -> Toponyms
      [] label = "PRODUCT" -> Products

\* the name a span is counted under, and whether it is counted at all
CountedName(span) ==
    IF CategoryOf(span.label) = Toponyms
    THEN normalize_location(span.text, extractor, morph_analyzer)
    ELSE IF CategoryOf(span.label) = Products THEN span.text
    ELSE normalize_name(span.text, extractor)

Counted(span) ==
    CASE CategoryOf(span.label) = Persons -> validate_person(CountedName(span), morph_analyzer)
      [] CategoryOf(span.label) = Organizations -> validate_org(CountedName(span), extractor)
      [] CategoryOf(span.label) = Toponyms -> validate_location(CountedName(span), extractor)
      [] CategoryOf(span.label) = Products -> TRUE

\* documents in corpus order, the spans of a document before its lexicon scan
SeenAt(d, i) == d * (MaxSpans + 2) + (IF i = 0 THEN MaxSpans + 1 ELSE i)

\* the counted spans, each with its category, its name and its place
SpanOccurrences ==
    UNION {{[category |-> CategoryOf(TaggedSpans(d)[i].label),
             name     |-> CountedName(TaggedSpans(d)[i]),
             at       |-> SeenAt(d, i)]
               : i \in {k \in 1..Len(TaggedSpans(d)) : Counted(TaggedSpans(d)[k])}}
           : d \in 1..Len(ner_corpus)}

\* one occurrence for every lexicon product a document's text mentions
ScanOccurrences ==
    UNION {{[category |-> Products, name |-> product, at |-> SeenAt(d, 0)]
               : product \in {q \in extractor.products : product_search(q, ner_corpus[d].text)}}
           : d \in 1..Len(ner_corpus)}

OccurrencesOf(c, n, occ) == {o \in occ : o.category = c /\ o.name = n}
CountOf(c, n, occ) == Cardinality(OccurrencesOf(c, n, occ))
FirstSeenAt(c, n, occ) ==
    CHOOSE m \in {o.at : o \in OccurrencesOf(c, n, occ)} :
        \A o \in OccurrencesOf(c, n, occ) : m <= o.at

ThresholdOf(c) == IF c = Persons THEN 1 ELSE 2

Validated == person_valid # <<>>

At(t, i, S) == i >= 1 /\ i <= Len(t) /\ t[i] \in S
AllIn(t, i, j, S) == \A k \in i..j : At(t, k, S)
Dot == {"."}

\* surname, blanks, two dotted initials (blanks allowed between them)
SurnameInitials(t) ==
    \E a \in 2..Len(t) : \E b \in (a + 1)..Len(t) : \E c \in (b + 2)..Len(t) :
        /\ At(t, 1, UpperLetters) /\ AllIn(t, 2, a, LowerLetters)
        /\ AllIn(t, a + 1, b, Whitespace)
        /\ At(t, b + 1, UpperLetters) /\ At(t, b + 2, Dot)
        /\ AllIn(t, b + 3, c, Whitespace)
        /\ At(t, c + 1, UpperLetters) /\ At(t, c + 2, Dot)

\* two dotted initials, blanks, surname
InitialsSurname(t) ==
    \E a \in 2..Len(t) : \E b \in (a + 3)..Len(t) :
        /\ At(t, 1, UpperLetters) /\ At(t, 2, Dot)
        /\ AllIn(t, 3, a, Whitespace)
        /\ At(t, a + 1, UpperLetters) /\ At(t, a + 2, Dot)
        /\ AllIn(t, a + 3, b, Whitespace)
        /\ At(t, b + 1, UpperLetters) /\ At(t, b + 2, LowerLetters)

\* two capitalised words
TwoCapitalised(t) ==
    \E a \in 2..Len(t) : \E b \in (a + 1)..Len(t) :
        /\ At(t, 1, UpperLetters) /\ AllIn(t, 2, a, LowerLetters)
        /\ AllIn(t, a + 1, b, Whitespace)
        /\ At(t, b + 1, UpperLetters) /\ At(t, b + 2, LowerLetters)

StartsLikeAName(t) == SurnameInitials(t) \/ InitialsSurname(t) \/ TwoCapitalised(t)

NoisePhrases == {ETAL, PROC, IEEE, PARALLEL}
HasNoise(t) ==
    \E ph \in NoisePhrases : \E i \in 1..Len(t) :
        i + Len(ph) - 1 <= Len(t) /\ lower(SubSeq(t, i, i + Len(ph) - 1)) = ph

\* the first blank-separated word is tagged Name, Surn or Patr
FirstWordTagged(t) ==
    \E i \in 1..Len(t) : \E j \in i..Len(t) :
        /\ AllIn(t, 1, i - 1, Whitespace)
        /\ AllIn(t, i, j, AllChars \ Whitespace)
        /\ (j = Len(t) \/ t[j + 1] \in Whitespace)
        /\ SubSeq(t, i, j) \in morph_analyzer.names

JKRowling == <<"J", ".", " ", "K", ".", " ", "R", "o", "w", "l", "i", "n", "g">>
RowlingJK == <<"R", "o", "w", "l", "i", "n", "g", " ", "J", ".", "K", ".">>
EtAl2020 == <<"e", "t", " ", "a", "l", ".", " ", "2", "0", "2", "0">>

\* C10: a name shorter than 2 is rejected; otherwise one starting like one
\* of the three patterns is accepted; otherwise one containing a noise
\* phrase is rejected; otherwise it is accepted exactly when its first word
\* is tagged as a name.  "J. K. Rowling" and "Rowling J.K." are accepted,
\* "et al. 2020" is rejected.
C10_PersonValidationOrder ==
    Validated =>
        /\ person_valid[1] =
              (/\ Len(person_name) >= 2
               /\ \/ StartsLikeAName(person_name)
                  \/ ~HasNoise(person_name) /\ FirstWordTagged(person_name))
        /\ person_name \in {JKRowling, RowlingJK} => person_valid[1] = TRUE
        /\ person_name = EtAl2020 => person_valid[1] = FALSE

\* a name that starts like a name and holds a noise phrase was accepted
C10_Witness ==
    /\ Validated
    /\ StartsLikeAName(person_name)
    /\ HasNoise(person_name)
    /\ person_valid[1] = TRUE


(***************************************************************************)
(* Claims about NERExtractor._validate_org and _normalize_location, stated *)
(* on span_text, the loaded lexicons and the analyzer's answers.           *)
(***************************************************************************)
OrgValidated == org_valid # <<>>
LocNormalized == loc_normalized # <<>>

\* t holds the keyword, whatever the case of either
HoldsKeyword(t, keyword) ==
    \E i \in 1..Len(t) :
        /\ i + Len(keyword) - 1 <= Len(t)
        /\ lower(SubSeq(t, i, i + Len(keyword) - 1)) = lower(keyword)

OrgKeywords ==
    {ORG_UNIVERSITET, ORG_INSTITUT, ORG_UNIVERSITY, ORG_COMPANY, ORG_INSTITUTE, ORG_CORPORATION}

\* C11: an organization name is accepted if and only if it has at least 3
\* characters, its lowercased form holds an organization keyword, and it
\* holds no journal marker of the loaded set; a name holding a listed
\* journal marker is rejected even when it holds an organization keyword
C11_OrgAcceptedIff ==
    OrgValidated =>
        org_valid[1] =
            (/\ Len(span_text) >= 3
             /\ \E k \in OrgKeywords : HoldsKeyword(span_text, k)
             /\ ~\E m \in extractor.journal_markers : HoldsKeyword(span_text, m))

\* the nominative form of a word: itself when it is nominative already or
\* cannot be inflected
NominativeOf(word) ==
    IF /\ word \in DOMAIN morph_analyzer.cases
       /\ ~morph_analyzer.cases[word].nomn
       /\ morph_analyzer.cases[word].inflected # <<>>
    THEN capitalize(morph_analyzer.cases[word].inflected)
    ELSE word

AbbreviationMapped(t) ==
    IF t \in DOMAIN extractor.location_abbr_map THEN extractor.location_abbr_map[t] ELSE t

\* C12: for a location of any number of words the first word is replaced by
\* its nominative form (kept when nominative already or not inflectable),
\* and the location-abbreviation map is applied to the result as a whole
C12_FirstWordNominativeThenMap ==
    LocNormalized =>
        LET words == split(span_text)
        IN  Len(words) >= 1 =>
              loc_normalized[1]
                = AbbreviationMapped(join(<<" ">>, <<NominativeOf(words[1])>> \o Tail(words)))


(***************************************************************************)
(* Claims about the engines over a whole batch.                            *)
(***************************************************************************)
BuildCalled == term_raised \/ term_results # NoResult
ExtractCalled == ner_raised \/ ner_results # NoResult

\* the documents whose morphology call, or whose tagging call, raises
MorphologyFails(text) ==
    \E w \in morph_raises : \E i \in 1..Len(text) :
        /\ i + Len(w) - 1 <= Len(text)
        /\ lower(SubSeq(text, i, i + Len(w) - 1)) = w
        /\ (i = 1 \/ text[i - 1] \notin WordChars)
        /\ (i + Len(w) > Len(text) \/ text[i + Len(w)] \notin WordChars)
TaggingFails(item) ==
    /\ item.text \in tagger_raises
    /\ item.language = "RU" \/ extractor.nlp_en

\* C13: when the tagging or morphology call raises for a document, the call
\* of extract_from_corpus or build_index still returns, and what it returns
\* is the result over the corpus without the failing documents
C13_FailureSkipsOneDocument ==
    /\ BuildCalled =>
          /\ ~term_raised
          /\ term_results \in build_index(SelectSeq(corpus_texts, LAMBDA t : ~MorphologyFails(t)),
                                          domain_terms, morph_nouns_adjs, abbr_stopwords)
    /\ ExtractCalled =>
          /\ ~ner_raised
          /\ ner_results \in extract_from_corpus(SelectSeq(ner_corpus, LAMBDA d : ~TaggingFails(d)),
                                                 extractor, morph_analyzer)

IsZero(ratio) == ratio.num = 0 /\ ratio.den # 0

\* C14: on a corpus of zero documents analyze returns M = N = K_R = K_I =
\* core_lexicon_size = 0 and an empty freq_dict, build_index returns empty
\* lists with total 0, extract_from_corpus returns no entities with total 0,
\* and none of them fails
C14_EmptyCorpus ==
    /\ (lemma_lists = <<>> /\ freq_results # NoResult) =>
          /\ freq_results.M = 0 /\ freq_results.N = 0
          /\ IsZero(freq_results.K_R) /\ IsZero(freq_results.K_I)
          /\ freq_results.core_lexicon_size = 0
          /\ freq_results.freq_dict = <<>>
    /\ corpus_texts = <<>> =>
          /\ ~term_raised
          /\ term_results # NoResult =>
                /\ term_results.terms = <<>> /\ term_results.bigrams = <<>>
                /\ term_results.trigrams = <<>> /\ term_results.abbreviations = <<>>
                /\ term_results.all_terms = <<>> /\ term_results.total = 0
    /\ ner_corpus = <<>> =>
          /\ ~ner_raised
          /\ ner_results # NoResult =>
                /\ \A i \in 1..Len(ner_results.by_category) :
                      ner_results.by_category[i].entities = <<>>
                /\ ner_results.total = 0

\* the three engines have returned on zero documents
C14_Witness ==
    /\ lemma_lists = <<>> /\ freq_results # NoResult
    /\ corpus_texts = <<>> /\ term_results # NoResult
    /\ ner_corpus = <<>> /\ ner_results # NoResult


(***************************************************************************)
(* Claims relating two runs of TermIndexBuilder.build_index.               *)
(***************************************************************************)
\* C15: build_index run again on the same ordered corpus with the same
\* lexicons returns the same dict: the same entries in the same order with
\* the same scores, abbreviation records and joined expansions included
C15_BuildIndexRepeatable ==
    [][(term_results # NoResult /\ ~term_raised') => term_results' = term_results]_vars


(***************************************************************************)
(* Claims about the product scan of NERExtractor.extract_from_corpus.      *)
(***************************************************************************)
\* the text holds the name as a whole word, whatever the case of the letters
\* (the names of the lexicon begin and end with a letter or a digit)
WholeWordIn(product, text) ==
    \E i \in 1..Len(text) :
        /\ i + Len(product) - 1 <= Len(text)
        /\ \A k \in 1..Len(product) : LowerMap[text[i + k - 1]] = LowerMap[product[k]]
        /\ i > 1 => text[i - 1] \notin WordChars
        /\ i + Len(product) <= Len(text) => text[i + Len(product)] \notin WordChars

DocumentsNaming(product) ==
    {d \in 1..Len(ner_corpus) : WholeWordIn(product, ner_corpus[d].text)}

\* the spans the tagger itself reported as this product
ProductSpans(product) ==
    {o \in UNION {{<<d, i>> : i \in 1..Len(TaggedSpans(d))} : d \in 1..Len(ner_corpus)} :
        /\ TaggedSpans(o[1])[o[2]].label = "PRODUCT"
        /\ TaggedSpans(o[1])[o[2]].text = product}

TermWordNgrams(n) ==
    LET docs == term_doc_words(corpus_texts)
    IN  UNION {{join(<<" ">>, SubSeq(docs[d], i, i + n - 1)) : i \in 1..(Len(docs[d]) - n + 1)}
               : d \in 1..Len(docs)}

\* C17: the n-grams (n = 2, 3) are built over the word sequence of
\* extract_terms, the lowercase alphabetic runs of at least 3 letters: the
\* n-grams counted are the n-grams over that sequence, and no returned
\* n-gram has a word shorter than 3 letters
C17_NgramsOverTermWords ==
    Built =>
        \A n \in {2, 3} :
            /\ DOMAIN term_df[n] = TermWordNgrams(n)
            /\ \A k \in 1..Len(ResultList(n)) :
                  LET words == split(ResultList(n)[k].term)
                  IN  \A i \in 1..Len(words) : Len(words[i]) >= 3


\* C18: an n-gram is returned if and only if it occurs at least 3 times
\* inside one document; its score is the maximum over the documents where it
\* occurs at least 3 times (the others add nothing to it, but count in its
\* document frequency); occurring in several documents, fewer than 3 times
\* in each, it is absent
C18_NgramFrequencyGate ==
    Built =>
        \A n \in {2, 3} :
            LET docs == ItemsOf(n)
                out  == ResultList(n)
            IN  /\ {out[k].term : k \in 1..Len(out)}
                     = {g \in AllItems(docs) : \E d \in 1..Len(docs) : CountIn(g, docs[d]) >= 3}
                /\ \A k \in 1..Len(out) :
                      LET gated == {d \in 1..Len(docs) : CountIn(out[k].term, docs[d]) >= 3}
                      IN  /\ \E d \in gated :
                                ScoreEQ(out[k].tfidf_score, DocScore(out[k].term, d, docs))
                          /\ \A d \in gated :
                                ScoreGE(out[k].tfidf_score, DocScore(out[k].term, d, docs))

\* a returned bigram has its score from a document with 3 occurrences,
\* although a document with fewer occurrences would score it higher; a
\* bigram of two documents, fewer than 3 times in each, is absent
C18_Witness ==
    /\ Built
    /\ LET docs == ItemsOf(2)
           out  == ResultList(2)
       IN  /\ \E k \in 1..Len(out) : \E d, e \in 1..Len(docs) :
                 /\ CountIn(out[k].term, docs[d]) >= 3
                 /\ CountIn(out[k].term, docs[e]) \in {1, 2}
                 /\ ScoreGT(DocScore(out[k].term, e, docs), DocScore(out[k].term, d, docs))
                 /\ ScoreEQ(out[k].tfidf_score, DocScore(out[k].term, d, docs))
           /\ \E g \in AllItems(docs) :
                 /\ Cardinality(DocsWith(g, docs)) >= 2
                 /\ \A k \in 1..Len(out) : out[k].term # g

\* the corpus in every order of its documents
PermutationsOf(corpus) ==
    {[i \in 1..Len(corpus) |-> corpus[p[i]]]
        : p \in {q \in [1..Len(corpus) -> 1..Len(corpus)] :
                    \A i, j \in 1..Len(corpus) : q[i] = q[j] => i = j}}

\* the same (term, tfidf_score, in_domain) entries, a score being the number
\* it stands for: 1/1 and 2/2 are one score
EntryIn(x, entries) ==
    \E k \in 1..Len(entries) :
        /\ entries[k].term = x.term
        /\ entries[k].in_domain = x.in_domain
        /\ ScoreEQ(entries[k].tfidf_score, x.tfidf_score)
SameEntries(xs, ys) ==
    /\ \A k \in 1..Len(xs) : EntryIn(xs[k], ys)
    /\ \A k \in 1..Len(ys) : EntryIn(ys[k], xs)

\* C19: for every permutation of the corpus, extract_terms and
\* extract_ngrams return the same set of (term, tfidf_score, in_domain)
\* entries as for the corpus itself
C19_DocumentOrderIndependent ==
    Built =>
        \A permuted \in PermutationsOf(corpus_texts) :
            /\ SameEntries(extract_terms(permuted, domain_terms, morph_nouns_adjs),
                           term_results.terms)
            /\ SameEntries(extract_ngrams(permuted, 2, domain_terms), term_results.bigrams)
            /\ SameEntries(extract_ngrams(permuted, 3, domain_terms), term_results.trigrams)

\* three documents, a word and a bigram each scored higher by an earlier
\* document than by a later one
C19_Witness ==
    /\ Built
    /\ Len(corpus_texts) = 3
    /\ \A n \in {1, 2} :
          LET docs == ItemsOf(n)
              out  == ResultList(n)
          IN  \E k \in 1..Len(out) : \E d, e \in 1..Len(docs) :
                 /\ d < e
                 /\ CountIn(out[k].term, docs[d]) >= 3
                 /\ CountIn(out[k].term, docs[e]) >= 3
                 /\ ScoreGT(DocScore(out[k].term, d, docs), DocScore(out[k].term, e, docs))


\* what the 'extracted' entry holds is a non-empty list
ExtractedNonEmpty(c) ==
    IF c["extracted"] = Missing THEN FALSE ELSE c["extracted"].data # <<>>

OwnEntry ==
    [command \in {"analyze", "terms", "names"} |->
        CASE command = "analyze" -> "frequency"
          [] command = "terms" -> "terms"
          [] command = "names" -> "names"]

\* C20: analyze, terms and names save their own entry, and no other, only when
\* the 'extracted' entry exists and holds a non-empty list at that moment;
\* when it is missing or holds an empty list, the command saves nothing and
\* leaves every cache entry as it was
C20_WritesOnlyAfterExtract ==
    [][last_command' \in DOMAIN OwnEntry =>
          /\ cache_writes' \subseteq {OwnEntry[last_command']}
          /\ \A e \in CacheEntries \ {OwnEntry[last_command']} : cache'[e] = cache[e]
          /\ (cache_writes' # {} \/ cache' # cache) => ExtractedNonEmpty(cache)
          /\ ~ExtractedNonEmpty(cache) => cache_writes' = {} /\ cache' = cache]_vars

\* terms has just run on an 'extracted' entry that holds an empty list, and
\* saved nothing
C20_Witness ==
    /\ last_command = "terms"
    /\ cache["extracted"] # Missing
    /\ ~ExtractedNonEmpty(cache)
    /\ corpus_dir # <<>>
    /\ cache_writes = {}
    /\ cache["terms"] = Missing

====
